---------------------------- MODULE Spec2Model ----------------------------
(***************************************************************************)
(* A model of the RealEstateAgent application: the listing parser          *)
(* (listingcreation.py), the vector-store build (listingcreation.py), the  *)
(* semantic search (listingsearch.py) and the Streamlit handlers of        *)
(* main.py.                                                                *)
(*                                                                         *)
(* Text is a sequence of tokens.  A token is one character (a digit, ",",  *)
(* ".", "$", "/", a letter, " " or "\n") or one of the literal words the   *)
(* regular expressions of the parser look for ("Neighborhood:", "Price:",  *)
(* "Bedrooms:", "Bathrooms:", "House Size:", "sqft", "Description:",       *)
(* "Neighborhood Description:").  Free text never spells one of these      *)
(* words out of single characters.                                         *)
(***************************************************************************)
EXTENDS Integers, Sequences, FiniteSets, TLC

VARIABLES
    input_str,      \* the raw text handed to parse_real_estate_listings_to_json
    blocks,         \* the blocks input_str was written from (what the author meant)
    listings,       \* the list `listings` of the last parser run
    printed,        \* what the last parser run printed
    listings_json,  \* the file listings.json: whether it exists, and the array it holds
    chroma_db,      \* the directory chroma_db: whether it exists, and the documents of
                    \* its collection
    selection,      \* the widget values of the search form
    query,          \* the query string built by the last Search click
    results,        \* what perform_semantic_search returned last
    calls,          \* the functions the last handler run called, in order
    display,        \* what the last handler run put on the page
    last            \* the handler that ran last, and how it ended

vars == <<input_str, blocks, listings, printed, listings_json, chroma_db,
          selection, query, results, calls, display, last>>

----------------------------------------------------------------------------
(* Bounds of the model.                                                    *)

\* most blocks in one input text of the parser specification
MaxBlocks == 2

----------------------------------------------------------------------------
(* Characters and Python's string functions.                               *)

\* Python's None (int() of the parser's digit classes is never negative)
None == -1

\* a path that does not exist, and one that holds data
Absent == [exists |-> FALSE, data |-> <<>>]
Stored(data) == [exists |-> TRUE, data |-> data]

Digits == {"0", "1", "2", "3", "4", "5", "6", "7", "8", "9"}

DigitVal(c) ==
    CASE c = "0" -> 0 [] c = "1" -> 1 [] c = "2" -> 2 [] c = "3" -> 3
      [] c = "4" -> 4 [] c = "5" -> 5 [] c = "6" -> 6 [] c = "7" -> 7
      [] c = "8" -> 8 [] c = "9" -> 9

DigitChar(d) ==
    CASE d = 0 -> "0" [] d = 1 -> "1" [] d = 2 -> "2" [] d = 3 -> "3"
      [] d = 4 -> "4" [] d = 5 -> "5" [] d = 6 -> "6" [] d = 7 -> "7"
      [] d = 8 -> "8" [] d = 9 -> "9"

\* the regular expression class \s, and what str.strip() removes
Whitespace == {" ", "\n"}

\* the token at position i, or "" past either end of the text
At(t, i) == IF i \in 1..Len(t) THEN t[i] ELSE ""

\* the first position >= i that holds no whitespace (a greedy \s* from i)
RECURSIVE SkipWs(_, _)
SkipWs(t, i) == IF At(t, i) \in Whitespace THEN SkipWs(t, i + 1) ELSE i

\* the last position of the longest run of tokens of class cls that starts at
\* i; i - 1 when the token at i is not of the class (a greedy cls+ fails)
RECURSIVE RunEnd(_, _, _)
RunEnd(t, i, cls) == IF At(t, i) \in cls THEN RunEnd(t, i + 1, cls) ELSE i - 1

Slice(t, a, b) == IF a <= b THEN SubSeq(t, a, b) ELSE <<>>

\* str.strip()
RECURSIVE LStrip(_)
LStrip(t) == IF t # <<>> /\ Head(t) \in Whitespace THEN LStrip(Tail(t)) ELSE t
RECURSIVE RStrip(_)
RStrip(t) ==
    IF t # <<>> /\ t[Len(t)] \in Whitespace THEN RStrip(SubSeq(t, 1, Len(t) - 1)) ELSE t
Strip(t) == LStrip(RStrip(t))

\* a replace that replaces nothing
RemoveCommasKept(t) == t

\* str.replace(',', '')
RECURSIVE RemoveCommas(_)
RemoveCommas(t) ==
    IF t = <<>> THEN <<>>
    ELSE IF Head(t) = "," THEN RemoveCommas(Tail(t))
    ELSE <<Head(t)>> \o RemoveCommas(Tail(t))

RECURSIVE DecimalValue(_)
DecimalValue(t) ==
    IF t = <<>> THEN 0
    ELSE 10 * DecimalValue(SubSeq(t, 1, Len(t) - 1)) + DigitVal(t[Len(t)])

\* int(s): ValueError (here None) unless s is one digit or more
PyInt(t) ==
    IF t = <<>> \/ \E i \in 1..Len(t) : t[i] \notin Digits THEN None ELSE DecimalValue(t)

Count(t, c) == Cardinality({i \in 1..Len(t) : t[i] = c})

\* a decimal m / 10^e with no trailing zero in its fraction
RECURSIVE Normalize(_, _)
Normalize(m, e) == IF e > 0 /\ m % 10 = 0 THEN Normalize(m \div 10, e - 1) ELSE <<m, e>>

\* the value float() could not give
NoFloat == <<None, 0>>

\* float(s) for s of digits and "." only: ValueError (here NoFloat) unless s
\* holds one "." at most and a digit
PyFloat(t) ==
    LET dots == Count(t, ".")
        point == IF dots = 1 THEN CHOOSE i \in 1..Len(t) : t[i] = "." ELSE Len(t) + 1
        whole == Slice(t, 1, point - 1)
        frac == Slice(t, point + 1, Len(t))
    IN  IF dots > 1 \/ Len(t) - dots = 0 THEN NoFloat
        ELSE Normalize(DecimalValue(whole \o frac), Len(frac))

----------------------------------------------------------------------------
(* parse_real_estate_listings_to_json: the split into blocks.              *)

\* property_split_pattern, \n?\d+\.\s+Neighborhood: , tried at position i: the
\* position of its last token, or 0 when it does not match there
SplitMatchEnd(t, i) ==
    LET d == IF At(t, i) = "\n" THEN i + 1 ELSE i
        de == RunEnd(t, d, Digits)
        we == RunEnd(t, de + 2, Whitespace)
    IN  IF /\ de >= d
           /\ At(t, de + 1) = "."
           /\ we >= de + 2
           /\ At(t, we + 1) = "Neighborhood:"
        THEN we + 1 ELSE 0

\* property_split_pattern.split(input_str), scanning from position i with the
\* current piece starting at position start: the leftmost match at or after i
\* ends the piece, and the scan goes on behind it
RECURSIVE SplitFrom(_, _, _)
SplitFrom(t, i, start) ==
    LET hits == {j \in i..Len(t) : SplitMatchEnd(t, j) > 0}
    IN  IF hits = {} THEN <<Slice(t, start, Len(t))>>
        ELSE LET j == CHOOSE x \in hits : \A y \in hits : x <= y
                 e == SplitMatchEnd(t, j)
             IN  <<Slice(t, start, j - 1)>> \o SplitFrom(t, e + 1, e + 1)

\* properties = splits[1:]
Properties(t) == Tail(SplitFrom(t, 1, 1))

\* (\d+)\.\s+Neighborhood: tried at position i
NumberMatchEnd(t, i) ==
    LET de == RunEnd(t, i, Digits)
        we == RunEnd(t, de + 2, Whitespace)
    IN  IF /\ de >= i
           /\ At(t, de + 1) = "."
           /\ we >= de + 2
           /\ At(t, we + 1) = "Neighborhood:"
        THEN we + 1 ELSE 0

\* len(re.findall(r'(\d+)\.\s+Neighborhood:', input_str))
RECURSIVE NumbersFrom(_, _)
NumbersFrom(t, i) ==
    LET hits == {j \in i..Len(t) : NumberMatchEnd(t, j) > 0}
    IN  IF hits = {} THEN 0
        ELSE LET j == CHOOSE x \in hits : \A y \in hits : x <= y
             IN  1 + NumbersFrom(t, NumberMatchEnd(t, j) + 1)

----------------------------------------------------------------------------
(* parse_real_estate_listings_to_json: listing_pattern.                    *)

SetMax(S) == CHOOSE x \in S : \A y \in S : y <= x
SetMin(S) == CHOOSE x \in S : \A y \in S : x <= y

\* \s*(.+?) from position a, where the rest of the pattern matches exactly when
\* the capture ends at a position of ends: \s* takes the most whitespace it can
\* and the capture the fewest tokens.  <<first, last>> of the capture, or
\* <<0, 0>> when there is none
LazyCapture(t, a, ends) ==
    LET w == SkipWs(t, a)
        ok == {c \in a..w : \E e \in ends : e >= c}
    IN  IF ok = {} THEN <<0, 0>>
        ELSE LET c == SetMax(ok)
             IN  <<c, SetMin({e \in ends : e >= c})>>

\* where (?P<description>.+?) may end: before
\* \n\s*Neighborhood Description:\s*(?P<neighborhood_description>.+)
DescriptionEnds(t) ==
    {e \in 1..Len(t) :
        /\ At(t, e + 1) = "\n"
        /\ LET m == SkipWs(t, e + 2)
           IN  At(t, m) = "Neighborhood Description:" /\ m + 1 <= Len(t)}

\* the pattern from the \n that ends the neighborhood down to the description:
\*   \n\s*Price:\s*\$(?P<price>[\d,]+)\n\s*Bedrooms:\s*(?P<bedrooms>\d+)\n\s*
\*   Bathrooms:\s*(?P<bathrooms>[\d.]+)\n\s*House Size:\s*(?P<house_size>[\d,]+)
\*   \s*sqft\n\s*Description:\s*(?P<description>.+?)\n\s*Neighborhood Description:
\* with the groups it captures, next to the neighborhood captured before it
FieldsAfter(t, p, neighborhood) ==
    LET pl == SkipWs(t, p + 1)
        pd == SkipWs(t, pl + 1)
        pe == RunEnd(t, pd + 1, Digits \cup {","})
        bl == SkipWs(t, pe + 2)
        bs == SkipWs(t, bl + 1)
        be == RunEnd(t, bs, Digits)
        al == SkipWs(t, be + 2)
        ab == SkipWs(t, al + 1)
        ae == RunEnd(t, ab, Digits \cup {"."})
        hl == SkipWs(t, ae + 2)
        hb == SkipWs(t, hl + 1)
        he == RunEnd(t, hb, Digits \cup {","})
        hq == SkipWs(t, he + 1)
        dl == SkipWs(t, hq + 2)
        shape == /\ At(t, p) = "\n"
                 /\ At(t, pl) = "Price:"
                 /\ At(t, pd) = "$"
                 /\ pe >= pd + 1
                 /\ At(t, pe + 1) = "\n"
                 /\ At(t, bl) = "Bedrooms:"
                 /\ be >= bs
                 /\ At(t, be + 1) = "\n"
                 /\ At(t, al) = "Bathrooms:"
                 /\ ae >= ab
                 /\ At(t, ae + 1) = "\n"
                 /\ At(t, hl) = "House Size:"
                 /\ he >= hb
                 /\ At(t, hq) = "sqft"
                 /\ At(t, hq + 1) = "\n"
                 /\ At(t, dl) = "Description:"
        dc == IF shape THEN LazyCapture(t, dl + 1, DescriptionEnds(t)) ELSE <<0, 0>>
        nl == SkipWs(t, dc[2] + 2)
        nb == SetMax({c \in (nl + 1)..SkipWs(t, nl + 1) : c <= Len(t)})
    IN  IF dc[1] = 0 THEN [ok |-> FALSE]
        ELSE [ok |-> TRUE,
              neighborhood |-> neighborhood,
              price |-> Slice(t, pd + 1, pe),
              bedrooms |-> Slice(t, bs, be),
              bathrooms |-> Slice(t, ab, ae),
              house_size |-> Slice(t, hb, he),
              description |-> Slice(t, dc[1], dc[2]),
              neighborhood_description |-> Slice(t, nb, Len(t))]

\* where (?P<neighborhood>.+?) may end: before a \n from which the rest matches
NeighborhoodEnds(t) == {e \in 1..Len(t) : FieldsAfter(t, e + 1, <<>>).ok}

\* match.groupdict() when the neighborhood capture is nc, or [ok |-> FALSE]
GroupDict(t, nc) ==
    IF nc[1] = 0 THEN [ok |-> FALSE]
    ELSE FieldsAfter(t, nc[2] + 1, Slice(t, nc[1], nc[2]))

\* listing_pattern tried at position s
MatchAt(t, s) ==
    GroupDict(t, IF At(t, s) = "Neighborhood:"
                 THEN LazyCapture(t, s + 1, NeighborhoodEnds(t)) ELSE <<0, 0>>)

\* of the attempts at every position, the leftmost that matches
Leftmost(attempts) ==
    LET hits == {s \in DOMAIN attempts : attempts[s].ok}
    IN  IF hits = {} THEN [ok |-> FALSE] ELSE attempts[SetMin(hits)]

\* listing_pattern.search(prop)
Search(t) == Leftmost([s \in 1..Len(t) |-> MatchAt(t, s)])

----------------------------------------------------------------------------
(* parse_real_estate_listings_to_json: the loop over the blocks.           *)

\* the conversions of the loop body: the record appended to listings and the
\* warnings printed
Converted(data, price, bedrooms, bathrooms, house_size, idx) ==
    [hit |-> TRUE,
     data |-> [neighborhood |-> data.neighborhood,
               price |-> price,
               bedrooms |-> bedrooms,
               bathrooms |-> bathrooms,
               house_size |-> house_size,
               description |-> Strip(data.description),
               neighborhood_description |-> Strip(data.neighborhood_description)],
     warnings |->
         (IF price = None
          THEN <<[msg |-> "Invalid price format", idx |-> idx]>> ELSE <<>>)
         \o (IF bedrooms = None
             THEN <<[msg |-> "Invalid bedrooms format", idx |-> idx]>> ELSE <<>>)
         \o (IF bathrooms = NoFloat
             THEN <<[msg |-> "Invalid bathrooms format", idx |-> idx]>> ELSE <<>>)
         \o (IF house_size = None
             THEN <<[msg |-> "Invalid house size format", idx |-> idx]>> ELSE <<>>)]

\* if match: ... else: print(... skipped)
Matched(match, idx) ==
    IF match.ok
    THEN Converted(match, PyInt(RemoveCommas(match.price)), PyInt(match.bedrooms),
                   PyFloat(match.bathrooms), PyInt(RemoveCommas(match.house_size)), idx)
    ELSE [hit |-> FALSE,
          warnings |-> <<[msg |-> "does not match the expected format and was skipped",
                          idx |-> idx]>>]

\* the body of the loop for the idx-th block
ParseProperty(piece, idx) == Matched(Search(<<"Neighborhood:">> \o Strip(piece)), idx)

\* listings.append(data), when the block matched
Appended(r) == IF r.hit THEN <<r.data>> ELSE <<>>

\* a loop that gives up what it has collected at the first block that does not match
RECURSIVE ListingsOfAbort(_, _)
ListingsOfAbort(properties, n) ==
    IF n = 0 THEN <<>>
    ELSE LET r == ParseProperty(properties[n], n)
         IN  IF r.hit THEN ListingsOfAbort(properties, n - 1) \o <<r.data>> ELSE <<>>

\* listings after the first n blocks
RECURSIVE ListingsOf(_, _)
ListingsOf(properties, n) ==
    IF n = 0 THEN <<>>
    ELSE ListingsOf(properties, n - 1) \o Appended(ParseProperty(properties[n], n))

\* the warnings of the first n blocks
RECURSIVE WarningsOf(_, _)
WarningsOf(properties, n) ==
    IF n = 0 THEN <<>>
    ELSE WarningsOf(properties, n - 1) \o ParseProperty(properties[n], n).warnings

\* the file after the run: written only when listings is not empty
SaveListings(found, file) == IF found # <<>> THEN Stored(found) ELSE file

\* what the run leaves: listings, the lines printed and the file
Returned(text, properties, found, warnings, file) ==
    [listings |-> found,
     printed |->
         (IF NumbersFrom(text, 1) # Len(properties)
          THEN <<[msg |-> "The number of found numbers does not match", idx |-> 0]>>
          ELSE <<>>)
         \o warnings
         \o (IF found # <<>>
             THEN <<[msg |-> "Successfully saved", idx |-> Len(found)]>>
             ELSE <<[msg |-> "No valid real estate listings found to save", idx |-> 0]>>),
     file |-> SaveListings(found, file)]

\* the loop over properties
ParseLoop(text, properties, file) ==
    Returned(text, properties, ListingsOf(properties, Len(properties)),
             WarningsOf(properties, Len(properties)), file)

\* parse_real_estate_listings_to_json(text) with listings.json holding file
ParseListings(text, file) == ParseLoop(text, Properties(text), file)

----------------------------------------------------------------------------
(* The text the generator is asked for (the prompt of generate_listing).   *)

\* the characters of a token sequence as one string
RECURSIVE Concat(_)
Concat(t) == IF t = <<>> THEN "" ELSE Head(t) \o Concat(Tail(t))

\* the decimal digits of n
RECURSIVE DigitsOf(_)
DigitsOf(n) == IF n < 10 THEN <<DigitChar(n)>> ELSE DigitsOf(n \div 10) \o <<DigitChar(n % 10)>>

\* a "," before every group of three digits but the first
RECURSIVE GroupThousands(_)
GroupThousands(d) ==
    IF Len(d) <= 3 THEN d
    ELSE GroupThousands(SubSeq(d, 1, Len(d) - 3)) \o <<",">> \o SubSeq(d, Len(d) - 2, Len(d))

\* Python's f"{n:,}"
FormatThousands(n) == GroupThousands(DigitsOf(n))

\* a decimal <<m, e>> as written: m / 10^e
RECURSIVE Pow10(_)
Pow10(e) == IF e = 0 THEN 1 ELSE 10 * Pow10(e - 1)
RECURSIVE PadLeft(_, _)
PadLeft(d, n) == IF Len(d) >= n THEN d ELSE PadLeft(<<"0">> \o d, n)
FormatDecimal(x) ==
    IF x[2] = 0 THEN DigitsOf(x[1])
    ELSE DigitsOf(x[1] \div Pow10(x[2])) \o <<".">> \o PadLeft(DigitsOf(x[1] % Pow10(x[2])), x[2])

Labels == <<"Neighborhood:", "Price:", "Bedrooms:", "Bathrooms:", "House Size:",
            "Description:", "Neighborhood Description:">>

\* one line of a block: nothing when the block leaves the label out
Line(b, label, value, gap) ==
    IF b.omit = label THEN <<>> ELSE <<label, " ">> \o value \o gap

\* the n-th block of a text, laid out as the example of the prompt
Render(b, n) ==
    DigitsOf(n) \o <<".", " ">>
    \o <<"Neighborhood:", " ">> \o b.neighborhood \o <<"\n">>
    \o Line(b, "Price:", b.price, <<"\n">>)
    \o Line(b, "Bedrooms:", b.bedrooms, <<"\n">>)
    \o Line(b, "Bathrooms:", b.bathrooms, <<"\n">>)
    \o Line(b, "House Size:", b.house_size \o <<" ", "sqft">>, <<"\n", "\n">>)
    \o Line(b, "Description:", b.description, <<"\n", "\n">>)
    \o Line(b, "Neighborhood Description:", b.neighborhood_description, <<"\n", "\n">>)

RECURSIVE RenderAll(_, _)
RenderAll(bs, n) == IF n = 0 THEN <<>> ELSE RenderAll(bs, n - 1) \o Render(bs[n], n)

\* a block as its author means it
Listing(nb, price, bed, bath, size, desc, nd) ==
    [neighborhood |-> nb,
     price |-> <<"$">> \o FormatThousands(price),
     bedrooms |-> DigitsOf(bed),
     bathrooms |-> FormatDecimal(bath),
     house_size |-> FormatThousands(size),
     description |-> desc,
     neighborhood_description |-> nd,
     omit |-> "none",
     meant |-> [price |-> price, bedrooms |-> bed, bathrooms |-> bath, house_size |-> size]]

GreenOaks == Listing(<<"G", "O">>, 800000, 3, <<2, 0>>, 2000, <<"a", " ", "b">>, <<"c">>)
Lakeside == Listing(<<"L">>, 1250000, 4, <<25, 1>>, 950,
                    <<"a", "\n", "\n", "b">>, <<"c", " ", "d">>)

\* the block with the text of one field replaced
WithField(b, field, text) == [b EXCEPT ![field] = text]
\* the block with one labelled line left out
Without(b, label) == [b EXCEPT !.omit = label]

\* the blocks the texts of the parser specification are written from
BlockKinds ==
    {GreenOaks, Lakeside,
     WithField(GreenOaks, "price", <<"$", "N", "/", "A">>),
     WithField(GreenOaks, "price", <<"$", ",">>),
     WithField(GreenOaks, "bathrooms", <<"1", ".", "5", ".", "2">>),
     WithField(GreenOaks, "house_size", <<"n", "/", "a">>)}
    \cup {Without(GreenOaks, Labels[i]) : i \in 2..Len(Labels)}

\* what may come before the first block
Preambles == {<<>>, <<"2", " ", "a", ":", "\n", "\n">>}

RECURSIVE SeqsUpTo(_, _)
SeqsUpTo(S, n) ==
    IF n = 0 THEN {<<>>}
    ELSE LET shorter == SeqsUpTo(S, n - 1)
         IN  shorter \cup {Append(q, x) : q \in {r \in shorter : Len(r) = n - 1}, x \in S}

----------------------------------------------------------------------------
(* The parser on its own: parse_real_estate_listings_to_json called once   *)
(* on a text of up to MaxBlocks blocks, in a directory with no files.      *)

Idle == [handler |-> "none", outcome |-> "none", raised |-> ""]

\* the widgets of the search form as the page first shows them
DefaultSelection ==
    [neighborhood |-> <<>>, price_range |-> <<300000, 800000>>,
     bedrooms |-> <<<<3, 0>>>>, bathrooms |-> <<<<2, 0>>>>,
     house_size |-> <<1500, 3000>>, additional_requirements |-> ""]

InitParser ==
    /\ blocks \in SeqsUpTo(BlockKinds, MaxBlocks)
    /\ \E pre \in Preambles : input_str = pre \o RenderAll(blocks, Len(blocks))
    /\ listings = <<>>
    /\ printed = <<>>
    /\ listings_json = Absent
    /\ chroma_db = Absent
    /\ selection = DefaultSelection
    /\ query = ""
    /\ results = <<>>
    /\ calls = <<>>
    /\ display = <<>>
    /\ last = Idle

\* parse_real_estate_listings_to_json(input_str)
ParseCall ==
    /\ last = Idle
    /\ \E run \in {ParseListings(input_str, listings_json)} :
           /\ listings' = run.listings
           /\ printed' = run.printed
           /\ listings_json' = run.file
    /\ calls' = <<"parse_real_estate_listings_to_json">>
    /\ last' = [handler |-> "parse_real_estate_listings_to_json", outcome |-> "returned",
                raised |-> ""]
    /\ UNCHANGED <<input_str, blocks, chroma_db, selection, query, results, display>>

NextParser == ParseCall

SpecParser == InitParser /\ [][NextParser]_vars

----------------------------------------------------------------------------
(* Properties of the parser, under SpecParser.                              *)

Parsed == last.handler = "parse_real_estate_listings_to_json"

\* digits with optional thousands separators
IsNumeral(t) ==
    /\ \A i \in 1..Len(t) : t[i] \in Digits \cup {","}
    /\ \E i \in 1..Len(t) : t[i] \in Digits

IsDecimal(t) ==
    /\ \A i \in 1..Len(t) : t[i] \in Digits \cup {"."}
    /\ \E i \in 1..Len(t) : t[i] \in Digits
    /\ Count(t, ".") <= 1

\* the block follows the template of the prompt
WellFormedBlock(b) ==
    /\ b.omit = "none"
    /\ b.neighborhood # <<>>
    /\ Len(b.price) >= 2 /\ Head(b.price) = "$" /\ IsNumeral(Tail(b.price))
    /\ b.bedrooms # <<>> /\ \A i \in 1..Len(b.bedrooms) : b.bedrooms[i] \in Digits
    /\ IsDecimal(b.bathrooms)
    /\ IsNumeral(b.house_size)
    /\ Strip(b.description) # <<>>
    /\ Strip(b.neighborhood_description) # <<>>

\* C1: a text of N blocks that all follow the template gives N records in the
\* order of the blocks, each with a non-empty description and neighborhood
\* description and with the price and house size its block means (the digits
\* without their thousands separators, as an integer).
C1_WellFormedTextParsesFully ==
    (Parsed /\ \A i \in 1..Len(blocks) : WellFormedBlock(blocks[i]))
    => /\ Len(listings) = Len(blocks)
       /\ \A i \in 1..Len(blocks) :
            /\ listings[i].neighborhood = blocks[i].neighborhood
            /\ listings[i].description # <<>>
            /\ listings[i].neighborhood_description # <<>>
            /\ listings[i].price = blocks[i].meant.price
            /\ listings[i].house_size = blocks[i].meant.house_size

\* two different well-formed blocks were parsed, the second priced $1,250,000
C1_Witness ==
    /\ Parsed
    /\ Len(blocks) = 2
    /\ WellFormedBlock(blocks[1]) /\ WellFormedBlock(blocks[2])
    /\ blocks[1] # blocks[2]
    /\ blocks[2].price = <<"$", "1", ",", "2", "5", "0", ",", "0", "0", "0">>
    /\ Len(listings) = 2
    /\ listings[2].price = 1250000

\* the block follows the template but for the text after "Price: $", which is
\* no number
OnlyPriceNonNumeric(b) ==
    /\ WellFormedBlock(WithField(b, "price", <<"$", "0">>))
    /\ Len(b.price) >= 2 /\ Head(b.price) = "$"
    /\ ~IsNumeral(Tail(b.price))

\* C2: a block in which only the price is non-numeric (Price: $N/A) still gives
\* a record, with price None and every other field taken from the block.
C2_NonNumericPriceKeepsRecord ==
    Parsed =>
        \A i \in 1..Len(blocks) :
            OnlyPriceNonNumeric(blocks[i]) =>
                \E j \in 1..Len(listings) :
                    /\ listings[j].price = None
                    /\ listings[j].neighborhood = blocks[i].neighborhood
                    /\ listings[j].bedrooms = blocks[i].meant.bedrooms
                    /\ listings[j].bathrooms = blocks[i].meant.bathrooms
                    /\ listings[j].house_size = blocks[i].meant.house_size
                    /\ listings[j].description = Strip(blocks[i].description)
                    /\ listings[j].neighborhood_description
                           = Strip(blocks[i].neighborhood_description)

\* the records the i-th block gives when it is the only block of its text
Alone(i) == ParseListings(Render(blocks[i], i), Absent).listings

RECURSIVE AloneUpTo(_)
AloneUpTo(n) == IF n = 0 THEN <<>> ELSE AloneUpTo(n - 1) \o Alone(n)

Skipped(i) == [msg |-> "does not match the expected format and was skipped", idx |-> i]

\* C3: a block that leaves a label out gives no record and a warning with its
\* 1-based position in the batch; the run returns, and its records are those of
\* the other blocks, in order, each as it parses on its own.
C3_BlockWithoutLabelSkipped ==
    Parsed =>
        /\ last.outcome = "returned"
        /\ listings = AloneUpTo(Len(blocks))
        /\ \A i \in 1..Len(blocks) :
            blocks[i].omit # "none" =>
                /\ Alone(i) = <<>>
                /\ \E k \in 1..Len(printed) : printed[k] = Skipped(i)
                /\ Len(listings) <= Len(blocks) - 1

\* a block without its Bathrooms line was skipped and the block after it kept
C3_Witness ==
    /\ Parsed
    /\ Len(blocks) = 2
    /\ blocks[1].omit = "Bathrooms:"
    /\ WellFormedBlock(blocks[2])
    /\ Len(listings) = 1
    /\ listings[1].neighborhood = blocks[2].neighborhood
    /\ \E k \in 1..Len(printed) : printed[k] = Skipped(1)

----------------------------------------------------------------------------
(* prepare_vectorstore: CharacterTextSplitter and the build of chroma_db.  *)

\* chunk_size and chunk_overlap of the text splitter
ChunkSize == 1000
ChunkOverlap == 200

\* a token that stands for one word of LongWordLen letters
LongWord == "W"
LongWordLen == 600

\* len() of a text
TokLen(tok) == IF tok = LongWord THEN LongWordLen ELSE Len(tok)
RECURSIVE TextLen(_)
TextLen(t) == IF t = <<>> THEN 0 ELSE TokLen(Head(t)) + TextLen(Tail(t))

Separator == <<"\n", "\n">>

\* re.split on the separator from position i, the current piece starting at
\* start; the empty pieces are dropped
RECURSIVE SplitOnSeparator(_, _, _)
SplitOnSeparator(t, i, start) ==
    LET piece(a, b) == IF a <= b THEN <<SubSeq(t, a, b)>> ELSE <<>>
        hits == {j \in i..Len(t) : At(t, j) = "\n" /\ At(t, j + 1) = "\n"}
    IN  IF hits = {} THEN piece(start, Len(t))
        ELSE LET j == CHOOSE x \in hits : \A y \in hits : x <= y
             IN  piece(start, j - 1) \o SplitOnSeparator(t, j + 2, j + 2)

\* separator.join(docs)
RECURSIVE JoinPieces(_)
JoinPieces(pieces) ==
    IF pieces = <<>> THEN <<>>
    ELSE IF Len(pieces) = 1 THEN pieces[1]
    ELSE pieces[1] \o Separator \o JoinPieces(Tail(pieces))

\* _join_docs: the joined text, stripped; no chunk when nothing is left
JoinDocs(current) ==
    LET text == Strip(JoinPieces(current))
    IN  IF text = <<>> THEN <<>> ELSE <<text>>

\* the while loop of _merge_splits: pieces leave the front of current until the
\* overlap fits and the next piece (of length len) fits with it
RECURSIVE PopFront(_, _, _)
PopFront(current, total, len) ==
    IF \/ total > ChunkOverlap
       \/ /\ total + len + (IF Len(current) > 0 THEN TextLen(Separator) ELSE 0) > ChunkSize
          /\ total > 0
    THEN PopFront(Tail(current),
                  total - (TextLen(current[1])
                           + (IF Len(current) > 1 THEN TextLen(Separator) ELSE 0)),
                  len)
    ELSE <<current, total>>

\* _merge_splits from the i-th piece on
RECURSIVE MergeSplits(_, _, _, _)
MergeSplits(splits, i, current, total) ==
    IF i > Len(splits) THEN JoinDocs(current)
    ELSE LET len == TextLen(splits[i])
             full == total + len + (IF Len(current) > 0 THEN TextLen(Separator) ELSE 0)
                     > ChunkSize
             kept == IF full /\ Len(current) > 0 THEN PopFront(current, total, len)
                     ELSE <<current, total>>
             next == Append(kept[1], splits[i])
         IN  (IF full /\ Len(current) > 0 THEN JoinDocs(current) ELSE <<>>)
             \o MergeSplits(splits, i + 1, next,
                            kept[2] + len + (IF Len(next) > 1 THEN TextLen(Separator) ELSE 0))

\* text_splitter.split_text(text)
SplitText(text) == MergeSplits(SplitOnSeparator(text, 1, 1), 1, <<>>, 0)

\* the documents of the row at position i of df (listing_id i - 1).  fresh is
\* no field of a document: it tells the documents of the running build from
\* those that were in the collection before it
RowDocs(df, i) ==
    LET row == df[i]
        metadata == [listing_id |-> i - 1,
                     neighborhood |-> row.neighborhood,
                     price |-> row.price,
                     bedrooms |-> row.bedrooms,
                     bathrooms |-> row.bathrooms,
                     house_size |-> row.house_size,
                     source |-> "listing_" \o Concat(DigitsOf(i - 1))]
        splits == SplitText(row.description)
    IN  [k \in 1..Len(splits) |->
            [page_content |-> splits[k], metadata |-> metadata, fresh |-> TRUE]]

\* docs after the first i rows
RECURSIVE DocsUpTo(_, _)
DocsUpTo(df, i) == IF i = 0 THEN <<>> ELSE DocsUpTo(df, i - 1) \o RowDocs(df, i)

\* what the first i calls of Chroma.from_documents have added to the collection:
\* the call for row j adds all of docs as it is after row j
RECURSIVE AddedUpTo(_, _)
AddedUpTo(df, i) == IF i = 0 THEN <<>> ELSE AddedUpTo(df, i - 1) \o DocsUpTo(df, i)

\* str(e) of the exception a call of the OpenAI service ends in, whichever
\* function makes the call (the llm, the embeddings, the chat model)
ServiceFailures == {"Connection error.", "Incorrect API key provided."}

\* an exists check that removes nothing
RemoveTreeKept(dir) == dir

\* if os.path.exists('chroma_db'): shutil.rmtree('chroma_db')
RemoveTree(dir) == Absent

\* the documents a build finds in the collection are not of that build
Aged(dir) == [dir EXCEPT !.data = [k \in 1..Len(@) |-> [@[k] EXCEPT !.fresh = FALSE]]]

\* prepare_vectorstore(df) with chroma_db holding dir.
\* failAt = i > 0: the embedding service fails, with the text cause, in the call
\* of from_documents for row i.  created: whether the Chroma client has made the
\* directory by then (it depends on the chromadb release).
PrepareVectorstore(df, dir, failAt, created, cause) ==
    LET cleared == RemoveTree(Aged(dir))
        added(i) == Stored(cleared.data \o AddedUpTo(df, i))
        made == IF dir.exists THEN <<"shutil.rmtree">> ELSE <<>>
    IN  IF failAt \in 1..Len(df)
        THEN [raised |-> cause, calls |-> made,
              dir |-> IF failAt > 1 \/ created THEN added(failAt - 1) ELSE cleared]
        ELSE IF Len(df) = 0
        THEN [raised |-> "UnboundLocalError: vectorstore", calls |-> made, dir |-> cleared]
        ELSE [raised |-> "", calls |-> made, dir |-> added(Len(df))]

----------------------------------------------------------------------------
(* main: the query built on a Search click.                                *)

\* sep.join(strs)
RECURSIVE JoinWith(_, _)
JoinWith(strs, sep) ==
    IF strs = <<>> THEN ""
    ELSE IF Len(strs) = 1 THEN strs[1]
    ELSE strs[1] \o sep \o JoinWith(Tail(strs), sep)

\* [f"{b}" for b in values], the values being decimals <<m, e>>
FormatAll(values) == [i \in 1..Len(values) |-> Concat(FormatDecimal(values[i]))]

\* a join that leaves the space out
JoinPartsTight(query_parts) == JoinWith(query_parts, ",") \o "."

\* query = ", ".join(query_parts) + "."
JoinParts(query_parts) == JoinWith(query_parts, ", ") \o "."

\* a formulator that takes a slider left at its default for an empty field
QueryPartsOfChanges(sel) ==
    (IF sel.neighborhood # <<>>
     THEN <<"in " \o JoinWith(sel.neighborhood, ", ")>> ELSE <<>>)
    \o (IF sel.price_range # <<300000, 800000>>
        THEN <<"priced between $" \o Concat(FormatThousands(sel.price_range[1]))
               \o " and $" \o Concat(FormatThousands(sel.price_range[2]))>> ELSE <<>>)
    \o (IF sel.bedrooms # <<>>
        THEN <<"having " \o JoinWith(FormatAll(sel.bedrooms), " or ") \o " bedrooms">>
        ELSE <<>>)
    \o (IF sel.bathrooms # <<>>
        THEN <<"having " \o JoinWith(FormatAll(sel.bathrooms), " or ") \o " bathrooms">>
        ELSE <<>>)
    \o (IF sel.house_size # <<1500, 3000>>
        THEN <<"with house size between " \o Concat(DigitsOf(sel.house_size[1]))
               \o " and " \o Concat(DigitsOf(sel.house_size[2])) \o " sqft">> ELSE <<>>)
    \o (IF sel.additional_requirements # ""
        THEN <<"that " \o sel.additional_requirements>> ELSE <<>>)

\* query_parts after the six ifs
QueryParts(sel) ==
    LET p1 == IF sel.neighborhood # <<>>
              THEN <<"in " \o JoinWith(sel.neighborhood, ", ")>> ELSE <<>>
        p2 == IF sel.price_range # <<>>
              THEN Append(p1, "priced between $"
                              \o Concat(FormatThousands(sel.price_range[1]))
                              \o " and $" \o Concat(FormatThousands(sel.price_range[2])))
              ELSE p1
        p3 == IF sel.bedrooms # <<>>
              THEN Append(p2, "having " \o JoinWith(FormatAll(sel.bedrooms), " or ")
                              \o " bedrooms")
              ELSE p2
        p4 == IF sel.bathrooms # <<>>
              THEN Append(p3, "having " \o JoinWith(FormatAll(sel.bathrooms), " or ")
                              \o " bathrooms")
              ELSE p3
        p5 == IF sel.house_size # <<>>
              THEN Append(p4, "with house size between "
                              \o Concat(DigitsOf(sel.house_size[1]))
                              \o " and " \o Concat(DigitsOf(sel.house_size[2])) \o " sqft")
              ELSE p4
    IN  IF sel.additional_requirements # ""
        THEN Append(p5, "that " \o sel.additional_requirements) ELSE p5

FormulateQuery(sel) == JoinParts(QueryParts(sel))

----------------------------------------------------------------------------
(* perform_semantic_search and generate_summary.                           *)

\* the default of the parameter k
K == 3

Min(a, b) == IF a <= b THEN a ELSE b

\* a search that opens the store whether or not the directory is there
PerformSemanticSearchUnchecked(dir, q, answer) ==
    IF answer.raised # ""
    THEN [raised |-> answer.raised, results |-> <<>>,
          calls |-> <<"Chroma", "similarity_search_with_score">>]
    ELSE [raised |-> "",
          results |-> LET n == Min(K, Len(dir.data))
                          first == Min(answer.offset, Len(dir.data) - n)
                      IN  [i \in 1..n |->
                              [content |-> dir.data[first + i].page_content,
                               metadata |-> dir.data[first + i].metadata,
                               score |-> i]],
          calls |-> <<"Chroma", "similarity_search_with_score">>]

\* perform_semantic_search(q) with chroma_db holding dir.  answer is what the
\* store does when asked: it fails, or it gives the K documents (all of them
\* when it holds fewer) it ranks best, here K in a row from answer.offset on
PerformSemanticSearch(dir, q, answer) ==
    IF ~dir.exists
    THEN [raised |-> "FileNotFoundError: ChromaDB not found", results |-> <<>>,
          calls |-> <<>>]
    ELSE PerformSemanticSearchUnchecked(dir, q, answer)

\* generate_summary(results): the summary, or the RuntimeError of a call that
\* failed with the text cause ("" when it did not fail)
GenerateSummary(res, cause) ==
    IF cause # "" THEN [raised |-> "Failed to generate summary: " \o cause, summary |-> ""]
    ELSE [raised |-> "", summary |-> "summary"]

Shown(kind, text) == [kind |-> kind, text |-> text]

\* the markdown of the loop over the results
ListingsShown(res) ==
    [i \in 1..Len(res) |->
        [kind |-> "markdown", text |-> "### Listing " \o Concat(DigitsOf(i)),
         result |-> res[i]]]

\* a results branch in which the error of the summary leaves the inner try
PresentResultsLost(res, sum) ==
    IF sum.raised # ""
    THEN <<Shown("error", "An error occurred during the search: " \o sum.raised)>>
    ELSE <<Shown("header", "Summary of Listings"), Shown("write", sum.summary)>>
         \o <<Shown("success", "Found " \o Concat(DigitsOf(Len(res))) \o " matching listings:")>>
         \o ListingsShown(res)

\* the branch `if results:` of the Search click
PresentResults(res, sum) ==
    (IF sum.raised # ""
     THEN <<Shown("error", "An error occurred while generating the summary: " \o sum.raised)>>
     ELSE <<Shown("header", "Summary of Listings"), Shown("write", sum.summary)>>)
    \o <<Shown("success", "Found " \o Concat(DigitsOf(Len(res))) \o " matching listings:")>>
    \o ListingsShown(res)

----------------------------------------------------------------------------
(* main: the handler of the "Create Listings" button, step by step.  A step *)
(* is skipped once an exception is on its way to the except clause.         *)

HarborView == Listing(<<"H", "V">>, 950000, 2, <<15, 1>>, 1200,
                      <<LongWord, "\n", "\n", LongWord>>, <<"e">>)

\* what generate_listing may return: a text written from these blocks
GenBatches ==
    {<<>>, <<Lakeside>>, <<GreenOaks, HarborView>>, <<Without(GreenOaks, "Bathrooms:")>>}

\* the text of a batch; a batch of no blocks is only a remark
GenText(batch) ==
    IF batch = <<>> THEN <<"2", " ", "a", ":", "\n", "\n">> ELSE RenderAll(batch, Len(batch))

\* the outcomes of generate_listing: the service fails, or a text comes back
GenOutcomes ==
    {[raised |-> cause, blocks |-> <<>>] : cause \in ServiceFailures}
    \cup {[raised |-> "", blocks |-> batch] : batch \in GenBatches}

\* listings = generate_listing()
StepGenerate(ctx, gen) ==
    IF gen.raised # ""
    THEN [ctx EXCEPT !.calls = Append(@, "generate_listing"),
                     !.raised = gen.raised,
                     !.failed = "generation"]
    ELSE [ctx EXCEPT !.calls = Append(@, "generate_listing"),
                     !.input = GenText(gen.blocks),
                     !.blocks = gen.blocks,
                     !.display = Append(@, Shown("success",
                                     "Synthetic listings generated successfully!"))]

\* the handler after the parser has returned run
AfterParse(ctx, run) ==
    [ctx EXCEPT !.calls = Append(@, "parse_real_estate_listings_to_json"),
                !.listings = run.listings,
                !.printed = run.printed,
                !.file = run.file,
                !.display = Append(@, Shown("success", "Listings parsed to JSON."))]

\* parse_real_estate_listings_to_json(listings)
StepParse(ctx) ==
    IF ctx.raised # "" THEN ctx ELSE AfterParse(ctx, ParseListings(ctx.input, ctx.file))

\* df = load_listings_data(): with no file, df is unbound at the return
StepLoad(ctx) ==
    IF ctx.raised # "" THEN ctx
    ELSE IF ctx.file.exists
    THEN [ctx EXCEPT !.calls = Append(@, "load_listings_data"),
                     !.df = ctx.file.data,
                     !.display = Append(@, Shown("success", "Listings data loaded."))]
    ELSE [ctx EXCEPT !.calls = Append(@, "load_listings_data"),
                     !.raised = "UnboundLocalError: df",
                     !.failed = "load"]

\* a build that runs whatever came before it
StepBuildAlways(ctx, failAt, created, cause) ==
    LET run == PrepareVectorstore(ctx.df, ctx.dir, failAt, created, cause)
    IN  [ctx EXCEPT !.calls = Append(@, "prepare_vectorstore") \o run.calls,
                    !.dir = run.dir,
                    !.raised = IF @ # "" THEN @ ELSE run.raised,
                    !.failed = IF @ # "" \/ run.raised = "" THEN @ ELSE "build"]

\* vectorstore = prepare_vectorstore(df)
StepBuild(ctx, failAt, created, cause) ==
    IF ctx.raised # "" THEN ctx
    ELSE LET run == PrepareVectorstore(ctx.df, ctx.dir, failAt, created, cause)
         IN  [ctx EXCEPT !.calls = Append(@, "prepare_vectorstore") \o run.calls,
                         !.dir = run.dir,
                         !.raised = run.raised,
                         !.failed = IF run.raised = "" THEN "" ELSE "build",
                         !.display = IF run.raised = ""
                                     THEN Append(@, Shown("success",
                                              "Vector store created and ready for searches."))
                                     ELSE @]

\* except Exception as e: st.error(f"An error occurred: {e}")
StepExcept(ctx) ==
    IF ctx.raised = "" THEN ctx
    ELSE [ctx EXCEPT !.display = Append(@, Shown("error", "An error occurred: " \o ctx.raised))]

\* the try statement up to the build
BeforeBuild(ctx, gen) == StepLoad(StepParse(StepGenerate(ctx, gen)))

\* the build and the except clause
BuildAndExcept(ctx, failAt, created, cause) ==
    StepExcept(StepBuild(ctx, failAt, created, cause))

\* how the handler ended, from the statement that raised
CreateOutcome(ctx) ==
    IF ctx.raised = "" THEN "done"
    ELSE IF ctx.failed = "generation" THEN "generation failed"
    ELSE IF ctx.failed = "load" THEN "load failed"
    ELSE "build failed"

\* the handler as it starts: the files as they are and nothing else
Entered(file, dir) ==
    [input |-> <<>>, blocks |-> <<>>, listings |-> <<>>, printed |-> <<>>,
     file |-> file, dir |-> dir, df |-> <<>>, calls |-> <<>>, display |-> <<>>,
     raised |-> "", failed |-> ""]

\* a click on "Create Listings": one run of the script
CreateListings ==
    /\ \E gen \in GenOutcomes :
         \E loaded \in {BeforeBuild(Entered(listings_json, chroma_db), gen)} :
             \E failAt \in 0..Len(loaded.df) :
             \E created \in (IF failAt = 1 THEN BOOLEAN ELSE {FALSE}) :
             \E cause \in (IF failAt > 0 THEN ServiceFailures ELSE {""}) :
                 \E ctx \in {BuildAndExcept(loaded, failAt, created, cause)} :
                     /\ input_str' = ctx.input
                     /\ blocks' = ctx.blocks
                     /\ listings' = ctx.listings
                     /\ printed' = ctx.printed
                     /\ listings_json' = ctx.file
                     /\ chroma_db' = ctx.dir
                     /\ calls' = ctx.calls
                     /\ display' = ctx.display
                     /\ last' = [handler |-> "Create Listings",
                                 outcome |-> CreateOutcome(ctx), raised |-> ctx.raised]
    /\ selection' = DefaultSelection
    /\ query' = ""
    /\ results' = <<>>

----------------------------------------------------------------------------
(* main: the "Use Existing Listings" page, and perform_semantic_search      *)
(* called on its own.                                                       *)

\* the page when os.path.exists('chroma_db') is false: no form, no button
NoVectorStore ==
    /\ ~chroma_db.exists
    /\ display' = <<Shown("error",
                    "No existing vector store found. Please generate new listings first.")>>
    /\ calls' = <<>>
    /\ results' = <<>>
    /\ last' = [handler |-> "Use Existing Listings", outcome |-> "missing index",
                raised |-> ""]
    /\ selection' = DefaultSelection
    /\ query' = ""
    /\ input_str' = <<>> /\ blocks' = <<>> /\ listings' = <<>> /\ printed' = <<>>
    /\ UNCHANGED <<listings_json, chroma_db>>

\* what the store may do when asked
Answers ==
    {[raised |-> cause, offset |-> 0] : cause \in ServiceFailures}
    \cup {[raised |-> "", offset |-> o] : o \in 0..1}

\* a click on "Search" with the form holding sel
SearchClick(sel) ==
    /\ chroma_db.exists
    /\ \E answer \in Answers, summaryFails \in {""} \cup ServiceFailures :
         \E q \in {FormulateQuery(sel)} :
         \E found \in {PerformSemanticSearch(chroma_db, q, answer)} :
         \E sum \in {GenerateSummary(found.results, summaryFails)} :
             /\ selection' = sel
             /\ query' = q
             /\ results' = found.results
             /\ calls' = <<"perform_semantic_search">> \o found.calls
                         \o (IF found.raised = "" /\ found.results # <<>>
                             THEN <<"generate_summary">> ELSE <<>>)
             /\ display' = <<Shown("write", "**Search Query:** " \o q)>>
                  \o (IF found.raised # ""
                      THEN <<Shown("error", "An error occurred during the search: "
                                            \o found.raised)>>
                      ELSE IF found.results # <<>>
                      THEN PresentResults(found.results, sum)
                      ELSE <<Shown("info",
                               "No matching listings found based on your preferences.")>>)
             /\ last' = [handler |-> "Search",
                         outcome |-> IF found.raised # "" THEN "search failed"
                                     ELSE IF found.results = <<>> THEN "no results"
                                     ELSE IF sum.raised # "" THEN "summary failed"
                                     ELSE "done",
                         raised |-> IF found.raised # "" THEN found.raised
                                    ELSE IF found.results # <<>> THEN sum.raised ELSE ""]
    /\ input_str' = <<>> /\ blocks' = <<>> /\ listings' = <<>> /\ printed' = <<>>
    /\ UNCHANGED <<listings_json, chroma_db>>

\* perform_semantic_search(q) called by another caller than the page
DirectSearch(q) ==
    \E answer \in Answers :
        \E found \in {PerformSemanticSearch(chroma_db, q, answer)} :
            /\ query' = q
            /\ results' = found.results
            /\ calls' = <<"perform_semantic_search">> \o found.calls
            /\ display' = <<>>
            /\ last' = [handler |-> "perform_semantic_search",
                        outcome |-> IF ~chroma_db.exists THEN "missing index"
                                    ELSE IF found.raised # "" THEN "search failed"
                                    ELSE IF found.results = <<>> THEN "no results"
                                    ELSE "done",
                        raised |-> found.raised]
            /\ selection' = DefaultSelection
            /\ input_str' = <<>> /\ blocks' = <<>> /\ listings' = <<>> /\ printed' = <<>>
            /\ UNCHANGED <<listings_json, chroma_db>>

----------------------------------------------------------------------------
(* The application: a fresh working directory, then any handler at a time. *)

\* the example of the specification: Green Oaks, 3 bedrooms, 2 bathrooms
ExampleSelection ==
    [neighborhood |-> <<"Green Oaks">>, price_range |-> <<300000, 800000>>,
     bedrooms |-> <<<<3, 0>>>>, bathrooms |-> <<<<2, 0>>>>,
     house_size |-> <<1500, 3000>>, additional_requirements |-> ""]

\* the forms tried in the application specification
FewSelections == {DefaultSelection, ExampleSelection}

Init ==
    /\ input_str = <<>>
    /\ blocks = <<>>
    /\ listings = <<>>
    /\ printed = <<>>
    /\ listings_json = Absent
    /\ chroma_db = Absent
    /\ selection = DefaultSelection
    /\ query = ""
    /\ results = <<>>
    /\ calls = <<>>
    /\ display = <<>>
    /\ last = Idle

Next ==
    \/ CreateListings
    \/ NoVectorStore
    \/ \E sel \in FewSelections : SearchClick(sel)
    \/ \E sel \in FewSelections : DirectSearch(FormulateQuery(sel))

Spec == Init /\ [][Next]_vars

----------------------------------------------------------------------------
(* The search form on its own: an index built from one generated batch,    *)
(* then Search clicks with the widgets set in many ways.                   *)

\* what the widgets can hold: a multiselect any list of its options, in the
\* order they were picked; a range slider always a pair; the text area any text
Neighborhoods == {<<>>, <<"Green Oaks">>, <<"Lakeside Estates", "Green Oaks">>}
PriceRanges == {<<300000, 800000>>, <<100000, 2000000>>}
BedroomChoices == {<<>>, <<<<3, 0>>>>}
BathroomChoices == {<<>>, <<<<2, 0>>>>, <<<<15, 1>>, <<2, 0>>, <<3, 0>>>>}
SizeRanges == {<<1500, 3000>>}
Requirements == {"", "has a garden"}

Selections ==
    [neighborhood : Neighborhoods, price_range : PriceRanges, bedrooms : BedroomChoices,
     bathrooms : BathroomChoices, house_size : SizeRanges,
     additional_requirements : Requirements]

\* the form with everything cleared that can be cleared
NoSelection ==
    [neighborhood |-> <<>>, price_range |-> <<300000, 800000>>, bedrooms |-> <<>>,
     bathrooms |-> <<>>, house_size |-> <<1500, 3000>>, additional_requirements |-> ""]

\* the state a "Create Listings" run without failures leaves in a fresh directory
InitQuery ==
    \E ctx \in {BuildAndExcept(BeforeBuild(Entered(Absent, Absent),
                                           [raised |-> "",
                                            blocks |-> <<GreenOaks, HarborView>>]),
                               0, FALSE, "")} :
        /\ input_str = ctx.input
        /\ blocks = ctx.blocks
        /\ listings = ctx.listings
        /\ printed = ctx.printed
        /\ listings_json = ctx.file
        /\ chroma_db = ctx.dir
        /\ calls = ctx.calls
        /\ display = ctx.display
        /\ last = [handler |-> "Create Listings", outcome |-> CreateOutcome(ctx),
                   raised |-> ctx.raised]
        /\ selection = DefaultSelection
        /\ query = ""
        /\ results = <<>>

NextQuery == \E sel \in Selections : SearchClick(sel)

SpecQuery == InitQuery /\ [][NextQuery]_vars

----------------------------------------------------------------------------
(* The query of a Search click.                                            *)

Searched == last.handler = "Search"

\* what Python writes for the numbers of the form: f"{n:,}", f"{n}", f"{b}"
MoneyText(n) ==
    CASE n = 100000 -> "100,000" [] n = 300000 -> "300,000"
      [] n = 800000 -> "800,000" [] n = 2000000 -> "2,000,000"

SizeText(n) ==
    CASE n = 1500 -> "1500" [] n = 3000 -> "3000"

CountText(c) ==
    CASE c = <<2, 0>> -> "2" [] c = <<3, 0>> -> "3" [] c = <<15, 1>> -> "1.5"

RECURSIVE Names(_)
Names(list) ==
    IF Len(list) = 1 THEN list[1] ELSE list[1] \o ", " \o Names(Tail(list))

RECURSIVE Alternatives(_)
Alternatives(list) ==
    IF Len(list) = 1 THEN CountText(list[1])
    ELSE CountText(list[1]) \o " or " \o Alternatives(Tail(list))

PriceFragment(range) ==
    "priced between $" \o MoneyText(range[1]) \o " and $" \o MoneyText(range[2])

SizeFragment(range) ==
    "with house size between " \o SizeText(range[1]) \o " and " \o SizeText(range[2])
    \o " sqft"

\* the fragment of each field in the fixed order, "" for an empty field
Fragments(sel) ==
    <<IF sel.neighborhood = <<>> THEN "" ELSE "in " \o Names(sel.neighborhood),
      IF sel.price_range = <<>> THEN "" ELSE PriceFragment(sel.price_range),
      IF sel.bedrooms = <<>> THEN "" ELSE "having " \o Alternatives(sel.bedrooms) \o " bedrooms",
      IF sel.bathrooms = <<>> THEN ""
      ELSE "having " \o Alternatives(sel.bathrooms) \o " bathrooms",
      IF sel.house_size = <<>> THEN "" ELSE SizeFragment(sel.house_size),
      IF sel.additional_requirements = "" THEN "" ELSE "that " \o sel.additional_requirements>>

\* the fragments from the i-th on, ", " before each but the first, then "."
RECURSIVE Sentence(_, _, _)
Sentence(frags, i, started) ==
    IF i > Len(frags) THEN "."
    ELSE IF frags[i] = "" THEN Sentence(frags, i + 1, started)
    ELSE (IF started THEN ", " ELSE "") \o frags[i] \o Sentence(frags, i + 1, TRUE)

ExampleQuery ==
    "in Green Oaks, priced between $300,000 and $800,000, having 3 bedrooms, having 2 bathrooms, with house size between 1500 and 3000 sqft."

\* C4: the query of a Search click is the fragments of exactly the non-empty
\* fields, in the order neighborhoods, price range, bedrooms, bathrooms, house
\* size, free text, joined with ", " and followed by one "."; the selection of
\* the example gives exactly the sentence of the example.
C4_QueryIsFragmentsInOrder ==
    Searched =>
        /\ query = Sentence(Fragments(selection), 1, FALSE)
        /\ selection = ExampleSelection => query = ExampleQuery

\* a Search click with the selection of the example
C4_Witness == Searched /\ selection = ExampleSelection /\ query = ExampleQuery

QueriesWithRanges ==
    {before \o PriceFragment(price) \o ", " \o beds \o baths \o SizeFragment(size)
            \o after \o "." :
        before \in {""} \cup {"in " \o Names(n) \o ", " : n \in Neighborhoods \ {<<>>}},
        price \in PriceRanges,
        beds \in {""} \cup {"having " \o Alternatives(b) \o " bedrooms, " :
                              b \in BedroomChoices \ {<<>>}},
        baths \in {""} \cup {"having " \o Alternatives(b) \o " bathrooms, " :
                               b \in BathroomChoices \ {<<>>}},
        size \in SizeRanges,
        after \in {""} \cup {", that " \o r : r \in Requirements \ {""}}}

----------------------------------------------------------------------------
(* Searches, with and without an index.                                    *)

Called(name) == \E i \in 1..Len(calls) : calls[i] = name

SearchAttempt == last.handler \in {"Use Existing Listings", "perform_semantic_search", "Search"}

NoIndexMessage ==
    Shown("error", "No existing vector store found. Please generate new listings first.")

NoResultsMessage == Shown("info", "No matching listings found based on your preferences.")

\* C6: a search attempted while chroma_db does not exist ends in the
\* missing-index failure, raised to the caller of perform_semantic_search or
\* shown on the page, without a call to the vector store; a search that ran and
\* found nothing raises nothing and shows another message.
C6_MissingIndexReported ==
    /\ (SearchAttempt /\ ~chroma_db.exists)
         => /\ last.outcome = "missing index"
            /\ ~Called("Chroma")
            /\ ~Called("similarity_search_with_score")
            /\ results = <<>>
            /\ last.handler = "perform_semantic_search"
                 => last.raised = "FileNotFoundError: ChromaDB not found"
            /\ last.handler = "Use Existing Listings" => display = <<NoIndexMessage>>
    /\ (SearchAttempt /\ last.outcome = "no results")
         => /\ chroma_db.exists
            /\ Called("similarity_search_with_score")
            /\ last.raised = ""
            /\ \A i \in 1..Len(display) : display[i] # NoIndexMessage
            /\ last.handler = "Search"
                 => \E i \in 1..Len(display) : display[i] = NoResultsMessage

\* perform_semantic_search called after a "Create Listings" run that wrote the
\* file and left no index
C6_Witness ==
    /\ last.handler = "perform_semantic_search"
    /\ ~chroma_db.exists
    /\ listings_json.exists
    /\ last.outcome = "missing index"

\* C7: when the search has returned results and generate_summary fails, the
\* page shows the error of the summary, the count of the results and every
\* result, and no error of the search.
C7_SummaryFailureKeepsResults ==
    (Searched /\ last.outcome = "summary failed") =>
        /\ results # <<>>
        /\ \E i \in 1..Len(display) :
             display[i] = Shown("error", "An error occurred while generating the summary: "
                                         \o last.raised)
        /\ \E i \in 1..Len(display) :
             display[i] = Shown("success", "Found " \o Concat(DigitsOf(Len(results)))
                                           \o " matching listings:")
        /\ \A k \in 1..Len(results) :
             \E i \in 1..Len(display) :
                 /\ display[i].kind = "markdown"
                 /\ display[i].text = "### Listing " \o Concat(DigitsOf(k))
                 /\ display[i].result = results[k]
        /\ \A i \in 1..Len(display) :
             display[i] # Shown("error", "An error occurred during the search: "
                                         \o last.raised)

\* the summary failed after a search that returned K results
C7_Witness ==
    /\ Searched
    /\ last.outcome = "summary failed"
    /\ Len(results) = K
    /\ Called("generate_summary")

----------------------------------------------------------------------------
(* The "Create Listings" handler and the two files.                        *)

Created == last.handler = "Create Listings"

\* C8: after a run of parse_real_estate_listings_to_json the file holds the
\* records parsed from the input of that run, one element each, in order.
C8_FileHoldsRecordsOfThisRun ==
    (Created /\ Called("parse_real_estate_listings_to_json") /\ listings_json.exists)
        => listings_json.data = listings

\* the document was made from the row at position i of df
MadeFrom(doc, row, i) ==
    /\ doc.metadata = [listing_id |-> i - 1,
                       neighborhood |-> row.neighborhood,
                       price |-> row.price,
                       bedrooms |-> row.bedrooms,
                       bathrooms |-> row.bathrooms,
                       house_size |-> row.house_size,
                       source |-> "listing_" \o Concat(DigitsOf(i - 1))]
    /\ \E c \in 1..Len(SplitText(row.description)) :
           doc.page_content = SplitText(row.description)[c]

C10_GenerationFailureChangesNothing ==
    [][(last'.handler = "Create Listings" /\ last'.outcome = "generation failed")
         => /\ calls' = <<"generate_listing">>
            /\ display' = <<Shown("error", "An error occurred: " \o last'.raised)>>
            /\ last'.raised # ""
            /\ listings_json' = listings_json
            /\ chroma_db' = chroma_db]_vars

\* generation has failed with a file and an index in place
C10_Witness ==
    /\ Created
    /\ last.outcome = "generation failed"
    /\ listings_json.exists
    /\ chroma_db.exists
    /\ calls = <<"generate_listing">>

----------------------------------------------------------------------------
(* What the page says when a stage of a user action fails.                 *)

\* the last handler run was a user action in which a stage failed
StageFailed ==
    /\ last.handler \in {"Create Listings", "Search"}
    /\ last.outcome \in {"generation failed", "load failed", "build failed",
                         "search failed", "summary failed"}

\* the texts of the st.error calls of the last handler run
ErrorsShown == {display[i].text : i \in {j \in 1..Len(display) : display[j].kind = "error"}}

\* C11: every failure of a stage of a user action shows an error message, and
\* two runs of the same action that failed in different stages do not show the
\* same error message.
C11_FailureMessageTellsStage ==
    [][/\ StageFailed' => ErrorsShown' # {}
       /\ (StageFailed /\ StageFailed'
           /\ last'.handler = last.handler /\ last'.outcome # last.outcome)
            => ErrorsShown' # ErrorsShown]_vars

----------------------------------------------------------------------------
(* What a first build puts into chroma_db.                                 *)

\* the chunks of all rows of df, each with the metadata of its row
ChunksOf(df) == DocsUpTo(df, Len(df))

\* how often doc is in docs
Copies(docs, doc) == Cardinality({j \in 1..Len(docs) : docs[j] = doc})

\* C12: after prepare_vectorstore(df) has completed where no index was, the
\* index holds each chunk of each row of df once, with the listing id and
\* metadata of its row, and as many entries as df has chunks.
C12_EachChunkIndexedOnce ==
    (Created /\ last.outcome = "done" /\ ~Called("shutil.rmtree")) =>
        /\ Len(chroma_db.data) = Len(ChunksOf(listings_json.data))
        /\ \A k \in 1..Len(ChunksOf(listings_json.data)) :
             Copies(chroma_db.data, ChunksOf(listings_json.data)[k])
                 = Copies(ChunksOf(listings_json.data), ChunksOf(listings_json.data)[k])

============================================================================
